---- MODULE Spec2Model ----
(***************************************************************************)
(* A model of the tsl numeric kernels (tsl/nn/functional.py) and of the    *)
(* bidirectional imputation model GRINModel                                *)
(* (tsl/nn/models/imputation/grin_model.py).                               *)
(*                                                                         *)
(* Arrays are records [shape, data]: shape is the tuple of sizes and data  *)
(* maps every 0-based index tuple to a number.  Numbers are exact          *)
(* rationals <<n, d>> in lowest terms with d > 0.                          *)
(***************************************************************************)
EXTENDS Integers, Sequences, FiniteSets, TLC

VARIABLES pc, args, orig, ret, net, cell_log

vars == <<pc, args, orig, ret, net, cell_log>>

(* ------------------------------ bounds --------------------------------- *)

\* Largest rank of an array handed to reverse_tensor / gated_tanh.
MaxRank == 3
\* Largest size of an axis of an array handed to reverse_tensor.
MaxLen == 2
\* Largest size of the axis gated_tanh splits.
MaxGateLen == 5
\* Largest number of sparse elements handed to sparse_multi_head_attention.
MaxS == 2
\* Largest group number of a group index.
MaxGroup == 2
\* Longest time axis of a sequence batch handed to GRINModel.forward.
MaxTime == 3
\* Largest node count of a sequence batch and of an embedding table.
MaxNodes == 2

(* ------------------------------ numbers -------------------------------- *)

Abs(n) == IF n < 0 THEN -n ELSE n

RECURSIVE GCD(_, _)
GCD(a, b) == IF b = 0 THEN a ELSE GCD(b, a % b)

\* The rational n/d in lowest terms, d > 0.
Rat(n, d) ==
    LET s == IF d < 0 THEN -1 ELSE 1
        g == GCD(Abs(n), Abs(d))
    IN  <<(s * n) \div g, (s * d) \div g>>

R(n) == <<n, 1>>

RAdd(a, b) ==
    LET g == GCD(a[2], b[2])
        l == (a[2] \div g) * b[2]
    IN  Rat(a[1] * (l \div a[2]) + b[1] * (l \div b[2]), l)

RNeg(a) == <<-a[1], a[2]>>

RSub(a, b) == RAdd(a, RNeg(b))

RMul(a, b) ==
    LET g1 == GCD(Abs(a[1]), b[2])
        g2 == GCD(Abs(b[1]), a[2])
    IN  Rat((a[1] \div g1) * (b[1] \div g2), (a[2] \div g2) * (b[2] \div g1))

\* a / b, b # 0.
RDiv(a, b) == RMul(a, Rat(b[2], b[1]))

RLess(a, b) == RSub(a, b)[1] < 0

RLeq(a, b) == RSub(a, b)[1] <= 0

RECURSIVE RSumSeq(_)
RSumSeq(s) == IF s = << >> THEN R(0) ELSE RAdd(s[1], RSumSeq(Tail(s)))

(* ------------------------------ arrays --------------------------------- *)

\* Python's None.
None == [kind |-> "None"]

RECURSIVE Indices(_)
\* All 0-based index tuples of an array of the given shape.
Indices(shape) ==
    IF shape = << >> THEN {<< >>}
    ELSE LET n == Len(shape)
         IN  {Append(p, i) : p \in Indices(SubSeq(shape, 1, n - 1)),
                             i \in 0 .. (shape[n] - 1)}

\* The array of the given shape whose entry at idx is F(idx).
Tensor(shape, F(_)) ==
    [kind |-> "Tensor", shape |-> shape, data |-> [idx \in Indices(shape) |-> F(idx)]]

IsTensor(t) == t.kind = "Tensor"

Rank(t) == Len(t.shape)

\* A Python axis number (negative counts from the end) as a tuple position.
Axis(t, dim) == (IF dim < 0 THEN dim + Rank(t) ELSE dim) + 1

\* tensor.size(dim)
Size(t, dim) == t.shape[Axis(t, dim)]

\* torch.arange(start, end, -1): start, start-1, ..., end+1.
ArangeDown(start, end) ==
    IF start > end THEN [i \in 1 .. (start - end) |-> start - (i - 1)] ELSE << >>

\* tensor.index_select(dim, indices): a new array whose slice i along dim is
\* the input's slice indices[i].
IndexSelect(t, dim, indices) ==
    LET a == Axis(t, dim)
    IN  Tensor([t.shape EXCEPT ![a] = Len(indices)],
               LAMBDA idx : t.data[[idx EXCEPT ![a] = indices[idx[a] + 1]]])

\* A mutation of reverse_tensor: the index list starts one short of the end.
reverse_tensor_short(tensor, dim) ==
    IndexSelect(tensor, dim, ArangeDown(Size(tensor, dim) - 2, -1))

reverse_tensor(tensor, dim) ==
    LET indices == ArangeDown(Size(tensor, dim) - 1, -1)
    IN  IndexSelect(tensor, dim, indices)

(* -------------------------- reverse_tensor ----------------------------- *)

RECURSIVE Shapes(_, _)
\* All shapes of exactly the given rank with sizes 0 .. maxLen.
Shapes(rank, maxLen) ==
    IF rank = 0 THEN {<< >>}
    ELSE {Append(s, n) : s \in Shapes(rank - 1, maxLen), n \in 0 .. maxLen}

RECURSIVE Code(_)
\* A number that differs between any two index tuples of one array.
Code(idx) ==
    IF idx = << >> THEN 0 ELSE 10 * Code(SubSeq(idx, 1, Len(idx) - 1)) + idx[Len(idx)] + 1

\* An array whose entries are pairwise different.
Distinct(shape, seed) == Tensor(shape, LAMBDA idx : R(Code(idx) + seed))

Idle == [kind |-> "idle"]

NoNet == [status |-> "unbuilt"]

InitReverse ==
    /\ pc = "idle"
    /\ \E rank \in 1 .. MaxRank :
       \E shape \in Shapes(rank, MaxLen) :
       \E dim \in (-rank) .. (rank - 1) :
       \E seed \in {0, 5} :
          args = [tensor |-> Distinct(shape, seed), dim |-> dim]
    /\ orig = args
    /\ ret = Idle
    /\ net = NoNet
    /\ cell_log = << >>

\* y = reverse_tensor(tensor, dim)
ReverseCall ==
    /\ pc = "idle"
    /\ ret' = reverse_tensor(args.tensor, args.dim)
    /\ pc' = "once"
    /\ UNCHANGED <<args, orig, net, cell_log>>

\* z = reverse_tensor(y, dim)
ReverseAgain ==
    /\ pc = "once"
    /\ ret' = reverse_tensor(ret, args.dim)
    /\ pc' = "twice"
    /\ UNCHANGED <<args, orig, net, cell_log>>

NextReverse == ReverseCall \/ ReverseAgain

SpecReverse == InitReverse /\ [][NextReverse]_vars

\* C7: reverse_tensor(t, dim) has the shape of t, its element at position i
\* along dim is t's element at position size(dim)-1-i, the other axes are
\* unchanged, a second application along the same axis gives t back (also
\* for sizes 0 and 1 along dim), and t itself is not modified.
ReverseIsInvolution ==
    LET t == orig.tensor
        a == Axis(t, orig.dim)
    IN  /\ args = orig
        /\ pc = "once" =>
              /\ ret.shape = t.shape
              /\ DOMAIN ret.data = DOMAIN t.data
              /\ \A idx \in DOMAIN t.data :
                    ret.data[idx] = t.data[[idx EXCEPT ![a] = t.shape[a] - 1 - idx[a]]]
        /\ pc = "twice" => ret = t

\* A 2 x 2 array of pairwise different entries was reversed twice along
\* its last axis.
ReverseWitness ==
    /\ pc = "twice"
    /\ Rank(orig.tensor) = 2
    /\ Size(orig.tensor, orig.dim) = 2
    /\ orig.dim = -1
    /\ orig.tensor.shape = <<2, 2>>
    /\ ret.data[<<0, 1>>] # ret.data[<<0, 0>>]

(* ------------------------- torch reductions ---------------------------- *)

\* The entries of t at idx along its last axis, as a sequence.
Row(t, idx) == [j \in 1 .. t.shape[Rank(t)] |-> t.data[Append(idx, j - 1)]]

Front(s) == SubSeq(s, 1, Len(s) - 1)

\* torch.stack([a, b], dim=-1): a new trailing axis of size 2.
TorchStack(a, b) ==
    Tensor(Append(a.shape, 2),
           LAMBDA idx : IF idx[Len(idx)] = 0 THEN a.data[Front(idx)] ELSE b.data[Front(idx)])

\* torch.sum(t, dim=-1): an array.
TorchSum(t) == Tensor(Front(t.shape), LAMBDA idx : RSumSeq(Row(t, idx)))

\* A mutation of torch.mean: the sum is not divided by the count.
TorchMeanUndivided(t) == TorchSum(t)

\* torch.mean(t, dim=-1): an array.
TorchMean(t) ==
    Tensor(Front(t.shape), LAMBDA idx : RDiv(RSumSeq(Row(t, idx)), R(t.shape[Rank(t)])))

\* The position (0-based) of the first entry of row that no entry is below.
ArgMin(row) ==
    CHOOSE j \in 0 .. (Len(row) - 1) :
        /\ \A k \in 1 .. Len(row) : RLeq(row[j + 1], row[k])
        /\ \A k \in 1 .. j : row[k] # row[j + 1]

ArgMax(row) ==
    CHOOSE j \in 0 .. (Len(row) - 1) :
        /\ \A k \in 1 .. Len(row) : RLeq(row[k], row[j + 1])
        /\ \A k \in 1 .. j : row[k] # row[j + 1]

\* torch.min(t, dim=-1): the pair (values, indices), not an array.
TorchMin(t) ==
    [kind |-> "values_indices",
     values |-> Tensor(Front(t.shape), LAMBDA idx : Row(t, idx)[ArgMin(Row(t, idx)) + 1]),
     indices |-> Tensor(Front(t.shape), LAMBDA idx : R(ArgMin(Row(t, idx))))]

\* torch.max(t, dim=-1): the pair (values, indices), not an array.
TorchMax(t) ==
    [kind |-> "values_indices",
     values |-> Tensor(Front(t.shape), LAMBDA idx : Row(t, idx)[ArgMax(Row(t, idx)) + 1]),
     indices |-> Tensor(Front(t.shape), LAMBDA idx : R(ArgMax(Row(t, idx))))]

\* getattr(torch, name)(t, dim=-1)
TorchReduce(name, t) ==
    CASE name = "mean" -> TorchMean(t)
      [] name = "sum" -> TorchSum(t)
      [] name = "min" -> TorchMin(t)
      [] name = "max" -> TorchMax(t)

RECURSIVE SumLast(_)
SumLast(ts) == IF ts = << >> THEN 0 ELSE ts[1].shape[Rank(ts[1])] + SumLast(Tail(ts))

RECURSIVE CatAt(_, _, _)
\* The entry of the concatenation of ts at leading index p, trailing position j.
CatAt(ts, p, j) ==
    LET n == ts[1].shape[Rank(ts[1])]
    IN  IF j < n THEN ts[1].data[Append(p, j)] ELSE CatAt(Tail(ts), p, j - n)

Raised(e) == [kind |-> "raised", error |-> e]

IsRaised(v) == v.kind = "raised"

\* torch.cat(ts, dim=-1): a None entry is a TypeError, arrays that differ in
\* a leading axis a RuntimeError.
TorchCat(ts) ==
    IF \E i \in 1 .. Len(ts) : ~IsTensor(ts[i]) THEN Raised("TypeError")
    ELSE IF \E i \in 1 .. Len(ts) : Front(ts[i].shape) # Front(ts[1].shape)
         THEN Raised("RuntimeError")
    ELSE Tensor(Append(Front(ts[1].shape), SumLast(ts)),
                LAMBDA idx : CatAt(ts, Front(idx), idx[Len(idx)]))

(* ------------------- graph recurrent imputation cell ------------------- *)

\* An optional integer argument that is given.
IntArg(n) == [kind |-> "int", val |-> n]

\* The integer an integer-valued entry holds.
Xi(t, idx) == t.data[idx][1]

RECURSIVE SumSeq(_)
SumSeq(s) == IF s = << >> THEN 0 ELSE s[1] + SumSeq(Tail(s))

\* The cell's first-stage prediction of feature f from hidden state h.
CellPredict(w, h, f) == (w * h + f + 1) % 5

\* The input the cell consumes at [b, s, n, f]: the observed value, or its
\* own prediction where the mask marks the value missing.
CellInput(w, h, x, mask, b, s, n, f) ==
    IF IsTensor(mask) /\ mask.data[<<b, s, n, f>>] = R(0)
    THEN CellPredict(w, h, f)
    ELSE Xi(x, <<b, s, n, f>>)

RECURSIVE CellStates(_, _, _, _, _, _, _)
\* The hidden states of series (b, n) before steps 0 .. t, in the order of
\* the time axis the cell is given: the state before step s is entry s + 1.
CellStates(w, x, mask, u, b, n, t) ==
    IF t = 0 THEN <<0>>
    ELSE LET prev == CellStates(w, x, mask, u, b, n, t - 1)
             h == prev[t]
             s == t - 1
             xs == [f \in 1 .. x.shape[4] |-> CellInput(w, h, x, mask, b, s, n, f - 1)]
             ex == IF IsTensor(u) THEN Xi(u, <<b, s, n, 0>>) ELSE 0
         IN  Append(prev, (2 * h + w * SumSeq(xs) + ex + 1) % 5)

\* cell(x, edge_index, edge_weight, mask=mask, u=u) for a cell with
\* parameters w and hidden size hidden: (output, prediction,
\* representation, final_state).
Cell(w, hidden, x, mask, u) ==
    LET hs == [p \in Indices(<<x.shape[1], x.shape[3]>>) |->
                  CellStates(w, x, mask, u, p[1], p[2], x.shape[2])]
        H(idx) == hs[<<idx[1], idx[3]>>][idx[2] + 1]
    IN  [out |-> Tensor(x.shape, LAMBDA idx :
                    R((2 * CellInput(w, H(idx), x, mask, idx[1], idx[2], idx[3], idx[4])
                       + H(idx) + w) % 5)),
         pred |-> Tensor(x.shape, LAMBDA idx : R(CellPredict(w, H(idx), idx[4]))),
         repr |-> Tensor([x.shape EXCEPT ![4] = 2 * hidden],
                         LAMBDA idx : R((H(idx) + w * idx[4]) % 5)),
         state |-> Tensor(<<x.shape[1], x.shape[3]>>,
                          LAMBDA idx : R(hs[idx][x.shape[2] + 1]))]

(* ------------------------------ GRINModel ------------------------------ *)

\* StaticGraphEmbedding(n_nodes, embedding_size): a table of one row per node.
StaticGraphEmbedding(n_nodes, embedding_size) ==
    Tensor(<<n_nodes, embedding_size>>, LAMBDA idx : R((idx[1] + idx[2] + 1) % 3))

\* self.emb(expand=(b, s, -1, -1)): the table repeated over batch and time.
ExpandEmb(emb, b, s) ==
    Tensor(<<b, s>> \o emb.shape, LAMBDA idx : emb.data[<<idx[3], idx[4]>>])

Failed(e) == [status |-> "failed", error |-> e]

\* A mutation of the embedding step: the node count is not asserted.
EmbeddingStepUnchecked(embedding_size, n_nodes) ==
    IF embedding_size # None
    THEN [status |-> "ok",
          emb |-> StaticGraphEmbedding(IF n_nodes # None THEN n_nodes.val ELSE 0,
                                       embedding_size.val)]
    ELSE [status |-> "ok", emb |-> None]

\* __init__, the embedding table: an embedding size needs a node count.
EmbeddingStep(embedding_size, n_nodes) ==
    IF embedding_size # None
    THEN IF n_nodes = None
         THEN Failed("AssertionError")
         ELSE [status |-> "ok",
               emb |-> StaticGraphEmbedding(n_nodes.val, embedding_size.val)]
    ELSE [status |-> "ok", emb |-> None]

ReduceModes == {"mean", "sum", "min", "max"}

\* A mutation of the fusion step: an unknown mode falls back to the mean.
MergeStepLenient(merge_mode, input_size, hidden_size, ff_size, embedding_size) ==
    IF merge_mode = "mlp"
    THEN IF embedding_size = None
         THEN Failed("TypeError")
         ELSE [status |-> "ok",
               out |-> [kind |-> "Sequential",
                        in_channels |-> 4 * hidden_size + input_size + embedding_size.val,
                        ff_size |-> ff_size, out_channels |-> input_size]]
    ELSE IF merge_mode \in ReduceModes
         THEN [status |-> "ok", out |-> [kind |-> "torch", name |-> merge_mode]]
         ELSE [status |-> "ok", out |-> [kind |-> "torch", name |-> "mean"]]

\* __init__, the fusion: 4 * hidden_size + input_size + embedding_size is
\* evaluated as written, so embedding_size = None is int + None, a TypeError.
MergeStep(merge_mode, input_size, hidden_size, ff_size, embedding_size) ==
    IF merge_mode = "mlp"
    THEN IF embedding_size = None
         THEN Failed("TypeError")
         ELSE [status |-> "ok",
               out |-> [kind |-> "Sequential",
                        in_channels |-> 4 * hidden_size + input_size + embedding_size.val,
                        ff_size |-> ff_size, out_channels |-> input_size]]
    ELSE IF merge_mode \in ReduceModes
         THEN [status |-> "ok", out |-> [kind |-> "torch", name |-> merge_mode]]
         ELSE Failed("ValueError")

\* GRINModel(...): the constructed object, or the exception raised.  fwd_w
\* and bwd_w stand for the two cells' independently initialised parameters.
GRINModel_init(input_size, hidden_size, ff_size, embedding_size, n_nodes, merge_mode, fwd_w, bwd_w) ==
    LET cfg == [input_size |-> input_size, hidden_size |-> hidden_size,
                ff_size |-> ff_size, embedding_size |-> embedding_size,
                n_nodes |-> n_nodes]
        e == EmbeddingStep(embedding_size, n_nodes)
        m == MergeStep(merge_mode, input_size, hidden_size, ff_size, embedding_size)
    IN  IF e.status = "failed"
        THEN [status |-> "failed", error |-> e.error, cfg |-> cfg,
              merge_mode |-> merge_mode]
        ELSE IF m.status = "failed"
        THEN [status |-> "failed", error |-> m.error, cfg |-> cfg,
              merge_mode |-> merge_mode]
        ELSE [status |-> "built", cfg |-> cfg, merge_mode |-> merge_mode,
              fwd_gril |-> fwd_w, bwd_gril |-> bwd_w, emb |-> e.emb, out |-> m.out]

\* The weights of the two nn.Linear layers of self.out, as initialised.
LinearWeight(layer, i, j) ==
    IF layer = 1 THEN ((i + 2 * j) % 3) - 1 ELSE ((i + j) % 2) + 1

\* nn.Linear(in, out_features) without bias, applied along the last axis.
Linear(t, out_features, layer) ==
    Tensor(Append(Front(t.shape), out_features),
           LAMBDA idx : RSumSeq([i \in 1 .. t.shape[Rank(t)] |->
                            RMul(t.data[Append(Front(idx), i - 1)],
                                 R(LinearWeight(layer, i - 1, idx[Len(idx)])))]))

ReLU(t) == Tensor(t.shape, LAMBDA idx : IF RLess(t.data[idx], R(0)) THEN R(0) ELSE t.data[idx])

\* self.out(t) for the 'mlp' fusion: Linear, ReLU, Dropout (no-op at the
\* default rate 0), Linear.
Sequential(out, t) ==
    IF t.shape[Rank(t)] # out.in_channels THEN Raised("RuntimeError")
    ELSE Linear(ReLU(Linear(t, out.ff_size, 1)), out.out_channels, 2)

\* A mutation: the backward results are left in backward-time order.
RestoreTimeOmitted(res) == res

\* reverse_tensor(res, 1) for res in bwd
RestoreTime(res) == reverse_tensor(res, 1)

\* reverse_tensor(t, dim=1) if t is not None else None
ReverseOptional(t) == IF t # None THEN reverse_tensor(t, 1) ELSE None

\* GRINModel.forward(x, edge_index, edge_weight, mask, u): what it returns
\* or raises, with the two cell calls it made.
GRIN_forward(m, x, mask, u) ==
    LET fwd == Cell(m.fwd_gril, m.cfg.hidden_size, x, mask, u)
        rev_x == reverse_tensor(x, 1)
        rev_mask == ReverseOptional(mask)
        rev_u == ReverseOptional(u)
        bwd == Cell(m.bwd_gril, m.cfg.hidden_size, rev_x, rev_mask, rev_u)
        bwd_out == RestoreTime(bwd.out)
        bwd_pred == RestoreTime(bwd.pred)
        bwd_repr == RestoreTime(bwd.repr)
        inputs == <<fwd.repr, bwd_repr, mask>> \o
                  (IF m.emb # None
                   THEN <<ExpandEmb(m.emb, fwd.repr.shape[1], fwd.repr.shape[2])>>
                   ELSE << >>)
        cat == TorchCat(inputs)
        imputation == IF m.merge_mode = "mlp"
                      THEN IF IsRaised(cat) THEN cat ELSE Sequential(m.out, cat)
                      ELSE TorchReduce(m.out.name, TorchStack(fwd.out, bwd_out))
        calls == [fwd |-> [x |-> x, mask |-> mask, u |-> u],
                  bwd |-> [x |-> rev_x, mask |-> rev_mask, u |-> rev_u],
                  bwd_raw |-> [out |-> bwd.out, pred |-> bwd.pred, repr |-> bwd.repr],
                  fused |-> [fwd_repr |-> fwd.repr, bwd_repr |-> bwd_repr]]
    IN  [result |-> IF IsRaised(imputation) THEN imputation
                    ELSE [kind |-> "returned", imputation |-> imputation,
                          fwd_out |-> fwd.out, bwd_out |-> bwd_out,
                          fwd_pred |-> fwd.pred, bwd_pred |-> bwd_pred],
         calls |-> calls]

(* ----------------------- GRINModel: the machine ------------------------ *)

InputSizes == {1, 2}

HiddenSizes == {1}

FfSizes == {2}

EmbeddingSizes == {None, IntArg(1)}

NodeCounts == {None, IntArg(MaxNodes)}

MergeModes == {"mlp"} \cup ReduceModes \cup {"attention"}

\* The two cells' parameters: equal, or different.
CellParams == {<<1, 1>>, <<1, 2>>}

\* A sequence batch [1, t, n, f] whose time steps carry the values vals.
XInput(vals, n, f) ==
    Tensor(<<1, Len(vals), n, f>>,
           LAMBDA idx : R((vals[idx[2] + 1] + idx[3] + 2 * idx[4]) % 3))

\* No mask, every value observed, or values missing here and there.
Masks(x) ==
    {None,
     Tensor(x.shape, LAMBDA idx : R(1)),
     Tensor(x.shape, LAMBDA idx : R((idx[2] + idx[3] + idx[4]) % 2))}

\* No exogenous input, or one channel that changes over time.
Exogenous(x) ==
    {None, Tensor([x.shape EXCEPT ![4] = 1], LAMBDA idx : R((idx[2] + 1) % 2))}

\* The node counts of the batches a model is called on: the count it was
\* built for, when it was built for one.
BatchNodes(m) ==
    IF m.cfg.n_nodes # None THEN {m.cfg.n_nodes.val} ELSE 1 .. MaxNodes

InitGrin ==
    /\ pc = "new"
    /\ net = NoNet
    /\ args = Idle
    /\ orig = Idle
    /\ ret = Idle
    /\ cell_log = << >>

\* model = GRINModel(input_size, hidden_size, ff_size, embedding_size, ...)
Construct ==
    /\ pc = "new"
    /\ \E input_size \in InputSizes, hidden_size \in HiddenSizes, ff_size \in FfSizes,
          embedding_size \in EmbeddingSizes, n_nodes \in NodeCounts,
          merge_mode \in MergeModes, w \in CellParams :
          net' = GRINModel_init(input_size, hidden_size, ff_size, embedding_size,
                                n_nodes, merge_mode, w[1], w[2])
    /\ pc' = IF net'.status = "built" THEN "built" ELSE "failed"
    /\ UNCHANGED <<args, orig, ret, cell_log>>

\* model(x, edge_index, edge_weight, mask, u)
Forward ==
    /\ pc = "built"
    /\ \E t \in 1 .. MaxTime, n \in BatchNodes(net) :
       \E vals \in [1 .. t -> {0, 1}] :
       LET x == XInput(vals, n, net.cfg.input_size)
       IN  \E mask \in Masks(x), u \in Exogenous(x) :
           \E r \in {GRIN_forward(net, x, mask, u)} :
               /\ args' = [x |-> x, mask |-> mask, u |-> u]
               /\ ret' = r.result
               /\ cell_log' = r.calls
    /\ orig' = args'
    /\ pc' = "called"
    /\ UNCHANGED net

NextGrin == Construct \/ Forward

SpecGrin == InitGrin /\ [][NextGrin]_vars

(* ------------------------ GRINModel: properties ------------------------ *)

\* t with its second (time) axis in the opposite order, entry by entry.
TimeFlip(t) ==
    Tensor(t.shape, LAMBDA idx : t.data[[idx EXCEPT ![2] = t.shape[2] - 1 - idx[2]]])

TimeFlipOptional(t) == IF t = None THEN None ELSE TimeFlip(t)

KnownModes == {"mlp", "mean", "sum", "min", "max"}

\* embedding_size and n_nodes are given together or embedding_size is absent.
ValidEmbeddingArgs(cfg) == ~(cfg.embedding_size # None /\ cfg.n_nodes = None)

\* C1: with merge_mode = 'mean', forward returns an imputation of the shape
\* of x whose every entry is the mean of the corresponding entries of the
\* returned fwd_out and bwd_out (twice the entry is their sum).
MeanFusionIsMean ==
    (pc = "called" /\ net.merge_mode = "mean") =>
        /\ ret.kind = "returned"
        /\ IsTensor(ret.imputation)
        /\ ret.imputation.shape = orig.x.shape
        /\ \A idx \in Indices(orig.x.shape) :
              RMul(R(2), ret.imputation.data[idx])
                  = RAdd(ret.fwd_out.data[idx], ret.bwd_out.data[idx])

\* A 'mean' model was called with a mask on a batch where the two
\* directions disagree, so that a mean is not an integer.
MeanFusionWitness ==
    /\ pc = "called"
    /\ net.merge_mode = "mean"
    /\ IsTensor(orig.mask)
    /\ orig.x.shape[2] >= 2
    /\ \E idx \in Indices(orig.x.shape) :
          /\ ret.fwd_out.data[idx] # ret.bwd_out.data[idx]
          /\ ret.imputation.data[idx][2] = 2

\* The entry the named reduction gives for a forward entry f and a backward
\* entry b.
Reduced(mode, f, b) ==
    CASE mode = "mean" -> RDiv(RAdd(f, b), R(2))
      [] mode = "sum" -> RAdd(f, b)
      [] mode = "min" -> IF RLeq(f, b) THEN f ELSE b
      [] mode = "max" -> IF RLeq(f, b) THEN b ELSE f

\* C2 (as claimed): with merge_mode 'mean', 'sum', 'min' or 'max' the first
\* element forward returns is one array of the shape of fwd_out holding the
\* element-wise mean, sum, minimum or maximum of fwd_out and bwd_out.
ReduceFusionIsArray ==
    (pc = "called" /\ net.merge_mode \in ReduceModes) =>
        /\ ret.kind = "returned"
        /\ IsTensor(ret.imputation)
        /\ ret.imputation.shape = ret.fwd_out.shape
        /\ \A idx \in Indices(ret.fwd_out.shape) :
              ret.imputation.data[idx]
                  = Reduced(net.merge_mode, ret.fwd_out.data[idx], ret.bwd_out.data[idx])

\* C3 (as claimed): constructing with merge_mode = 'mlp' and no embedding
\* size succeeds, and a forward call of such a model returns.
MlpWithoutEmbeddingBuilds ==
    (pc # "new" /\ net.merge_mode = "mlp" /\ net.cfg.embedding_size = None) =>
        /\ net.status = "built"
        /\ net.emb = None
        /\ (pc = "called" /\ IsTensor(orig.mask)) => ret.kind = "returned"

\* C4: a merge_mode other than 'mlp', 'mean', 'sum', 'min', 'max' makes the
\* construction fail with a ValueError whenever the other arguments are
\* valid, and no model that was built or called has an unknown mode.
UnknownModeRejected ==
    /\ (pc # "new" /\ net.merge_mode \notin KnownModes /\ ValidEmbeddingArgs(net.cfg)) =>
            (pc = "failed" /\ net.status = "failed" /\ net.error = "ValueError")
    /\ pc \in {"built", "called"} => (net.status = "built" /\ net.merge_mode \in KnownModes)

\* An unknown mode was rejected in a construction that passed the
\* embedding check with an embedding table.
UnknownModeWitness ==
    /\ pc = "failed"
    /\ net.merge_mode = "attention"
    /\ net.error = "ValueError"
    /\ net.cfg.embedding_size # None
    /\ net.cfg.n_nodes # None

\* C5: an embedding size without a node count makes the construction fail
\* (the assertion), in every merge mode; a built model that has an embedding
\* table has a node count, the number of rows of the table.
EmbeddingNeedsNodes ==
    /\ (pc # "new" /\ net.cfg.embedding_size # None /\ net.cfg.n_nodes = None) =>
            (pc = "failed" /\ net.status = "failed" /\ net.error = "AssertionError")
    /\ (net.status = "built" /\ net.emb # None) =>
            (net.cfg.n_nodes # None /\ net.emb.shape[1] = net.cfg.n_nodes.val)

\* The assertion fired in a mode that never reads the embedding.
EmbeddingNeedsNodesWitness ==
    /\ pc = "failed"
    /\ net.merge_mode = "max"
    /\ net.cfg.embedding_size # None
    /\ net.cfg.n_nodes = None
    /\ net.error = "AssertionError"

\* C6: the backward cell is called on x, mask and u reversed along time (an
\* absent one stays absent); its out, pred and repr are reversed back before
\* fusion and return and its final state is not returned; and when both
\* cells have the same parameters, the bwd_out returned for the
\* time-reversed input, reversed again, is the fwd_out returned for x.
BackwardPassReversal ==
    pc = "called" =>
        /\ cell_log.fwd = [x |-> orig.x, mask |-> orig.mask, u |-> orig.u]
        /\ cell_log.bwd = [x |-> TimeFlip(orig.x), mask |-> TimeFlipOptional(orig.mask),
                           u |-> TimeFlipOptional(orig.u)]
        /\ cell_log.fused.bwd_repr = TimeFlip(cell_log.bwd_raw.repr)
        /\ ret.kind = "returned" =>
              /\ ret.bwd_out = TimeFlip(cell_log.bwd_raw.out)
              /\ ret.bwd_pred = TimeFlip(cell_log.bwd_raw.pred)
              /\ DOMAIN ret = {"kind", "imputation", "fwd_out", "bwd_out",
                               "fwd_pred", "bwd_pred"}
              /\ net.fwd_gril = net.bwd_gril =>
                    TimeFlip(GRIN_forward(net, TimeFlip(orig.x),
                                          TimeFlipOptional(orig.mask),
                                          TimeFlipOptional(orig.u)).result.bwd_out)
                        = ret.fwd_out

\* Equal cells were run on a masked batch with exogenous input whose
\* forward output reads differently backwards.
BackwardPassWitness ==
    /\ pc = "called"
    /\ ret.kind = "returned"
    /\ net.fwd_gril = net.bwd_gril
    /\ IsTensor(orig.mask)
    /\ IsTensor(orig.u)
    /\ orig.x # TimeFlip(orig.x)
    /\ ret.fwd_out # TimeFlip(ret.fwd_out)
    /\ ret.bwd_out # ret.fwd_out

(* ------------------------------ gated_tanh ----------------------------- *)

\* tensor.narrow(dim, start, length)
Narrow(t, a, start, length) ==
    Tensor([t.shape EXCEPT ![a] = length],
           LAMBDA idx : t.data[[idx EXCEPT ![a] = idx[a] + start]])

\* torch.tensor_split(input, 2, dim): two sections that cover the axis, the
\* first one entry longer when the size is odd.
TensorSplit2(input, dim) ==
    LET a == Axis(input, dim)
        n == input.shape[a]
        first == (n \div 2) + (n % 2)
    IN  <<Narrow(input, a, 0, first), Narrow(input, a, first, n - first)>>

\* The product tanh(a) * sigmoid(b), kept as a term.
TanhTimesSigmoid(a, b) == [tanh |-> a, sigmoid |-> b]

\* Two sizes broadcast when they are equal or one of them is 1.
Broadcastable(m, n) == m = n \/ m = 1 \/ n = 1

BroadcastSize(m, n) == IF m = 1 THEN n ELSE m

\* gated_tanh(input, dim): torch.tanh(out) * torch.sigmoid(gate) of the two
\* sections; the product broadcasts the sections' sizes along dim and raises
\* when they do not broadcast.
gated_tanh(input, dim) ==
    LET a == Axis(input, dim)
        parts == TensorSplit2(input, dim)
        out == parts[1]
        gate == parts[2]
        so == out.shape[a]
        sg == gate.shape[a]
    IN  IF ~Broadcastable(so, sg) THEN Raised("RuntimeError")
        ELSE Tensor([input.shape EXCEPT ![a] = BroadcastSize(so, sg)],
                    LAMBDA idx :
                        TanhTimesSigmoid(
                            out.data[[idx EXCEPT ![a] = IF so = 1 THEN 0 ELSE idx[a]]],
                            gate.data[[idx EXCEPT ![a] = IF sg = 1 THEN 0 ELSE idx[a]]]))

\* Shapes of the given rank whose axis a has size n and the others 1 or 2.
GateShapes(rank, a, n) ==
    {s \in [1 .. rank -> 1 .. MaxGateLen] :
        s[a] = n /\ \A i \in 1 .. rank : i # a => s[i] <= 2}

InitGated ==
    /\ pc = "idle"
    /\ \E rank \in 1 .. MaxRank :
       \E dim \in (-rank) .. (rank - 1) :
       \E n \in 1 .. MaxGateLen :
       \E shape \in GateShapes(rank, (IF dim < 0 THEN dim + rank ELSE dim) + 1, n) :
       \E seed \in {0, 5} :
          args = [input |-> Distinct(shape, seed), dim |-> dim]
    /\ orig = args
    /\ ret = Idle
    /\ net = NoNet
    /\ cell_log = << >>

\* y = gated_tanh(input, dim)
GatedCall ==
    /\ pc = "idle"
    /\ ret' = gated_tanh(args.input, args.dim)
    /\ pc' = "done"
    /\ UNCHANGED <<args, orig, net, cell_log>>

NextGated == GatedCall

SpecGated == InitGated /\ [][NextGated]_vars

\* C10 (as claimed): gated_tanh raises for every odd size along the chosen
\* axis (sizes 1 and 3 included); for an even size 2m it returns the array
\* of the input's shape with that axis halved whose entry i along the axis
\* is tanh(input[i]) * sigmoid(input[m + i]).
GatedTanhRejectsOdd ==
    pc = "done" =>
        LET t == orig.input
            a == Axis(t, orig.dim)
            n == t.shape[a]
            m == n \div 2
        IN  IF n % 2 = 1 THEN IsRaised(ret)
            ELSE /\ IsTensor(ret)
                 /\ ret.shape = [t.shape EXCEPT ![a] = m]
                 /\ \A idx \in Indices(ret.shape) :
                       ret.data[idx] = TanhTimesSigmoid(
                                           t.data[idx],
                                           t.data[[idx EXCEPT ![a] = idx[a] + m]])

(* ------------------- sparse_softmax and attention ---------------------- *)

\* tsl.epsilon, 5e-8.
Epsilon == Rat(1, 20000000)

\* exp(d) for d = 0, -1/2, -1, ..., -4, to two decimals.
Exp(d) ==
    LET halves == (-2 * d[1]) \div d[2]
    IN  Rat(<<100, 61, 37, 22, 14, 8, 5, 3, 2>>[halves + 1], 100)

\* math.sqrt(E) for a square E.
Sqrt(E) == CHOOSE r \in 0 .. E : r * r = E

RECURSIVE SeqMax(_)
SeqMax(s) ==
    IF Len(s) = 1 THEN s[1]
    ELSE LET m == SeqMax(Tail(s)) IN IF m > s[1] THEN m ELSE s[1]

\* maybe_num_nodes(index, num_nodes): the given count, else max(index) + 1.
maybe_num_nodes(index, num_nodes) ==
    IF num_nodes # None THEN num_nodes.val ELSE SeqMax(index) + 1

\* The positions (0-based) of the elements of group g, in order.
Members(index, g) ==
    SelectSeq([i \in 1 .. Len(index) |-> i - 1], LAMBDA s : index[s + 1] = g)

RECURSIVE RMaxSeq(_)
RMaxSeq(s) ==
    IF Len(s) = 1 THEN s[1]
    ELSE LET m == RMaxSeq(Tail(s)) IN IF RLess(m, s[1]) THEN s[1] ELSE m

\* scatter(src, broadcast(index, src, dim), dim, dim_size=N, reduce=...):
\* entry g along dim reduces the entries of src of the members of group g; a
\* group without members holds 0.
Scatter(src, index, dim, N, reduce) ==
    LET a == Axis(src, dim)
    IN  Tensor([src.shape EXCEPT ![a] = N],
               LAMBDA idx :
                   LET ms == Members(index, idx[a])
                       vs == [i \in 1 .. Len(ms) |-> src.data[[idx EXCEPT ![a] = ms[i]]]]
                   IN  IF vs = << >> THEN R(0)
                       ELSE IF reduce = "max" THEN RMaxSeq(vs) ELSE RSumSeq(vs))

\* A softmax over all elements at once, whatever their group.
sparse_softmax_dense(src, index, num_nodes, dim) ==
    LET zero == [i \in 1 .. Len(index) |-> 0]
        src_max == IndexSelect(Scatter(src, zero, dim, 1, "max"), dim, zero)
        out == Tensor(src.shape, LAMBDA idx : Exp(RSub(src.data[idx], src_max.data[idx])))
        out_sum == IndexSelect(Scatter(out, zero, dim, 1, "sum"), dim, zero)
    IN  Tensor(src.shape,
               LAMBDA idx : RDiv(out.data[idx], RAdd(out_sum.data[idx], Epsilon)))

\* sparse_softmax(src, index, num_nodes, dim); an index entry outside
\* 0 .. N-1 makes the scatter raise.
sparse_softmax(src, index, num_nodes, dim) ==
    LET N == maybe_num_nodes(index, num_nodes)
    IN  IF \E i \in 1 .. Len(index) : index[i] >= N THEN Raised("RuntimeError")
        ELSE
        LET src_max == IndexSelect(Scatter(src, index, dim, N, "max"), dim, index)
            out == Tensor(src.shape, LAMBDA idx : Exp(RSub(src.data[idx], src_max.data[idx])))
            out_sum == IndexSelect(Scatter(out, index, dim, N, "sum"), dim, index)
        IN  Tensor(src.shape,
                   LAMBDA idx : RDiv(out.data[idx], RAdd(out_sum.data[idx], Epsilon)))

\* A scatter-add that puts every element in row 0.
ScatterAddUngrouped(v, index, N) == Scatter(v, [i \in 1 .. Len(index) |-> 0], 0, N, "sum")

\* out = torch.zeros((N, H, O)); out.scatter_add_(0, broadcast(index, v, 0), v)
ScatterAdd(v, index, N) == Scatter(v, index, 0, N, "sum")

\* The shape two shapes of one rank broadcast to.
BroadcastShape(s1, s2) == [i \in 1 .. Len(s1) |-> BroadcastSize(s1[i], s2[i])]

\* The entry of t that position idx of a broadcast shape reads.
BroadcastAt(t, idx) == t.data[[i \in 1 .. Len(idx) |-> IF t.shape[i] = 1 THEN 0 ELSE idx[i]]]

\* F.dropout(alpha, p) in training mode: every entry is zeroed or scaled by
\* 1 / (1 - p), as keep says.
Dropout(alpha, p, keep) ==
    Tensor(alpha.shape,
           LAMBDA idx : IF keep[idx] THEN RDiv(alpha.data[idx], RSub(R(1), p)) ELSE R(0))

\* sparse_multi_head_attention(q, k, v, index, dim_size, dropout_p): what it
\* returns or raises, and the array v as the call leaves it (v *= ... works
\* in place).  keep is the draw of the dropout.
sparse_multi_head_attention(q, k, v, index, dim_size, dropout_p, keep) ==
    LET H == q.shape[2]
        E == q.shape[3]
        N == maybe_num_nodes(index, dim_size)
    IN  IF \E i \in 1 .. 3 : ~Broadcastable(q.shape[i], k.shape[i])
        THEN [result |-> Raised("RuntimeError"), v |-> v]
        ELSE
        LET qk == Tensor(BroadcastShape(q.shape, k.shape),
                         LAMBDA idx : RMul(BroadcastAt(q, idx), BroadcastAt(k, idx)))
            scores == Tensor(Front(qk.shape),
                             LAMBDA idx : RDiv(RSumSeq(Row(qk, idx)), R(Sqrt(E))))
            soft == sparse_softmax(scores, index, IntArg(N), 0)
        IN  IF IsRaised(soft) THEN [result |-> soft, v |-> v]
            ELSE
            LET alpha == IF RLess(R(0), dropout_p) THEN Dropout(soft, dropout_p, keep)
                         ELSE soft
                v2 == Tensor(v.shape,
                             LAMBDA idx : RMul(v.data[idx], alpha.data[<<idx[1], idx[2]>>]))
                out == ScatterAdd(v2, index, N)
            IN  [result |-> [kind |-> "returned", out |-> out, alpha |-> alpha], v |-> v2]

Heads == {1, 2}

QEmbeddings == {1, 4}

KEmbeddings == {1, 2, 4}

OutChannels == {1, 2}

QInput(S, H, E, seed) ==
    Tensor(<<S, H, E>>, LAMBDA idx : R((seed + idx[1] + idx[2] + idx[3]) % 2))

KInput(S, H, E) ==
    Tensor(<<S, H, E>>, LAMBDA idx : R(((idx[1] + 1) * (idx[2] + 1) + idx[3]) % 2))

VInput(S, H, O) ==
    Tensor(<<S, H, O>>, LAMBDA idx : R(1 + ((idx[1] + 2 * idx[2] + idx[3]) % 3)))

\* Calls without dropout.
PlainCalls ==
    {[q |-> QInput(S, H, Eq, seed), k |-> KInput(S, H, Ek), v |-> VInput(S, H, O),
      index |-> index, dim_size |-> dim_size, dropout_p |-> R(0)] :
        S \in 1 .. MaxS, H \in Heads, Eq \in QEmbeddings, Ek \in KEmbeddings,
        O \in OutChannels, seed \in {0, 1},
        index \in UNION {[1 .. n -> 0 .. MaxGroup] : n \in 1 .. MaxS},
        dim_size \in {None, IntArg(MaxGroup), IntArg(MaxGroup + 1)}}

\* Calls with dropout at rate 1/2.
DropoutCalls ==
    {[q |-> QInput(S, H, E, 0), k |-> KInput(S, H, E), v |-> VInput(S, H, 1),
      index |-> index, dim_size |-> None, dropout_p |-> Rat(1, 2)] :
        S \in 1 .. MaxS, H \in Heads, E \in QEmbeddings,
        index \in UNION {[1 .. n -> 0 .. MaxGroup] : n \in 1 .. MaxS}}

InitAttn ==
    /\ pc = "idle"
    /\ args \in {a \in PlainCalls \cup DropoutCalls : Len(a.index) = a.q.shape[1]}
    /\ orig = args
    /\ ret = Idle
    /\ net = NoNet
    /\ cell_log = << >>

\* The draws F.dropout can make: none at rate 0.
KeepMasks(shape, p) ==
    IF p = R(0) THEN {[idx \in Indices(shape) |-> TRUE]}
    ELSE [Indices(shape) -> BOOLEAN]

\* out, alpha = sparse_multi_head_attention(q, k, v, index, dim_size, dropout_p)
AttnCall ==
    /\ pc = "idle"
    /\ \E keep \in KeepMasks(<<args.q.shape[1], args.q.shape[2]>>, args.dropout_p) :
          LET r == sparse_multi_head_attention(args.q, args.k, args.v, args.index,
                                               args.dim_size, args.dropout_p, keep)
          IN  /\ ret' = r.result
              /\ args' = [args EXCEPT !.v = r.v]
    /\ pc' = "done"
    /\ UNCHANGED <<orig, net, cell_log>>

NextAttn == AttnCall

SpecAttn == InitAttn /\ [][NextAttn]_vars

\* C8 (as claimed): after a call q, k, v and index hold the values they
\* held before it.
AttentionLeavesInputs ==
    pc = "done" =>
        /\ args.q = orig.q
        /\ args.k = orig.k
        /\ args.v = orig.v
        /\ args.index = orig.index

\* C9 (as claimed): a call whose q and k differ in the last (embedding)
\* axis raises and returns nothing, also when one of the two sizes is 1.
AttentionRejectsMismatch ==
    (pc = "done" /\ orig.q.shape[3] # orig.k.shape[3]) => IsRaised(ret)

\* ---- sparse_softmax called on its own ----

SoftmaxValues == {R(0), Rat(3, 2)}

\* Scores of S elements and H heads; an odd head holds the negated scores.
SoftmaxSrc(vals, H) ==
    Tensor(<<Len(vals), H>>,
           LAMBDA idx : IF idx[2] % 2 = 0 THEN vals[idx[1] + 1] ELSE RNeg(vals[idx[1] + 1]))

\* sparse_softmax(src, index, num_nodes, dim) with dim naming the first axis.
SoftmaxCalls ==
    {[src |-> SoftmaxSrc(vals, H), index |-> index, num_nodes |-> num_nodes, dim |-> dim] :
        vals \in UNION {[1 .. n -> SoftmaxValues] : n \in 1 .. MaxS + 1},
        H \in Heads,
        index \in UNION {[1 .. n -> 0 .. MaxGroup] : n \in 1 .. MaxS + 1},
        num_nodes \in {None, IntArg(MaxGroup + 1)},
        dim \in {0, -2}}

InitSoftmax ==
    /\ pc = "ready"
    /\ args \in {a \in SoftmaxCalls : Len(a.index) = a.src.shape[1]}
    /\ orig = args
    /\ ret = Idle
    /\ net = NoNet
    /\ cell_log = << >>

\* out = sparse_softmax(src, index, num_nodes, dim)
SoftmaxCall ==
    /\ pc = "ready"
    /\ ret' = sparse_softmax(args.src, args.index, args.num_nodes, args.dim)
    /\ pc' = "softmax_done"
    /\ UNCHANGED <<args, orig, net, cell_log>>

InitKernels == InitSoftmax \/ InitAttn

NextKernels == SoftmaxCall \/ AttnCall

SpecKernels == InitKernels /\ [][NextKernels]_vars

\* 1 - Epsilon <= x <= 1
NearOne(x) ==
    /\ RLeq(x, R(1))
    /\ LET d == RSub(R(1), x) IN d[1] <= d[2] \div Epsilon[2]

\* The weights w[s, h] of the members of every group with a member sum to 1
\* up to Epsilon, head by head, and every weight lies in [0, 1].
Normalised(w, index) ==
    /\ \A idx \in Indices(w.shape) : RLeq(R(0), w.data[idx]) /\ RLeq(w.data[idx], R(1))
    /\ \A g \in 0 .. SeqMax(index), h \in 0 .. w.shape[2] - 1 :
          LET ms == Members(index, g)
          IN  ms # << >> =>
                  NearOne(RSumSeq([i \in 1 .. Len(ms) |-> w.data[<<ms[i], h>>]]))

\* C11: what sparse_softmax returns sums to 1 up to Epsilon over the members
\* of every non-empty group, whatever the order of the groups, with every
\* output in [0, 1]; so do, per group and head, the attention weights that
\* sparse_multi_head_attention returns when dropout_p = 0.
SoftmaxNormalised ==
    /\ (pc = "softmax_done" /\ IsTensor(ret)) => Normalised(ret, orig.index)
    /\ (pc = "done" /\ orig.dropout_p = R(0) /\ ret.kind = "returned") =>
           Normalised(ret.alpha, orig.index)

\* A softmax returned for groups given out of order, with a gap, one of them
\* holding two members of different scores.
SoftmaxWitness ==
    /\ pc = "softmax_done"
    /\ IsTensor(ret)
    /\ orig.index = <<2, 0, 2>>
    /\ orig.src.data[<<0, 0>>] # orig.src.data[<<2, 0>>]

Dict(items) == [kind |-> "dict", items |-> items]

Keys(d) == {it[1] : it \in d.items}

Str(x) == [kind |-> "str", val |-> x]

Class(name) == [kind |-> "class", name |-> name]

\* d.pop(key, default): the value popped and the dict as the pop leaves it.
DictPop(d, key, default) ==
    IF key \in Keys(d)
    THEN [value |-> Str((CHOOSE it \in d.items : it[1] = key)[2]),
          dict |-> Dict({it \in d.items : it[1] # key})]
    ELSE [value |-> default, dict |-> d]

\* Predictor.__init__: the attributes that configure_optimizers reads.  A
\* scheduler_kwargs that is given is stored as the object it is.
Predictor_init(optim_class, optim_kwargs, scheduler_class, scheduler_kwargs) ==
    [kind |-> "Predictor",
     optim_class |-> optim_class,
     optim_kwargs |-> optim_kwargs,
     scheduler_class |-> scheduler_class,
     scheduler_kwargs |-> IF scheduler_kwargs = None THEN Dict({}) ELSE scheduler_kwargs]

\* Predictor.configure_optimizers: the cfg it returns, with the keys it
\* holds, and the Predictor as the call leaves it.
configure_optimizers(self) ==
    LET optimizer == [kind |-> "optimizer", class |-> self.optim_class,
                      kwargs |-> self.optim_kwargs]
    IN  IF self.scheduler_class # None
        THEN LET popped == DictPop(self.scheduler_kwargs, "monitor", None)
                 metric == popped.value
                 scheduler == [kind |-> "scheduler", class |-> self.scheduler_class,
                               optimizer |-> optimizer, kwargs |-> popped.dict]
             IN  [cfg |-> [kind |-> "cfg",
                           keys |-> {"optimizer", "lr_scheduler"} \cup
                                    (IF metric # None THEN {"monitor"} ELSE {}),
                           optimizer |-> optimizer,
                           lr_scheduler |-> scheduler,
                           monitor |-> metric],
                  self |-> [self EXCEPT !.scheduler_kwargs = popped.dict]]
        ELSE [cfg |-> [kind |-> "cfg", keys |-> {"optimizer"}, optimizer |-> optimizer,
                       lr_scheduler |-> None, monitor |-> None],
              self |-> self]

OptimClasses == {Class("Adam"), Class("SGD")}

OptimKwargs == {Dict({<<"lr", Rat(1, 100)>>}), Dict({<<"lr", Rat(1, 1000)>>})}

SchedulerClasses == {None, Class("ReduceLROnPlateau"), Class("MultiStepLR")}

SchedulerItems ==
    {<<"monitor", "val_mae">>, <<"monitor", "val_loss">>, <<"mode", "min">>, <<"mode", "max">>,
     <<"threshold_mode", "rel">>, <<"threshold_mode", "abs">>}

\* No mapping, or one with at most one value for a key.
SchedulerKwargs ==
    {None} \cup {Dict(items) : items \in {its \in SUBSET SchedulerItems :
                                             \A a, b \in its : a[1] = b[1] => a = b}}

InitPredictor ==
    /\ pc = "constructed"
    /\ args \in [optim_class : OptimClasses, optim_kwargs : OptimKwargs,
                 scheduler_class : SchedulerClasses, scheduler_kwargs : SchedulerKwargs]
    /\ orig = args
    /\ net = Predictor_init(args.optim_class, args.optim_kwargs, args.scheduler_class,
                            args.scheduler_kwargs)
    /\ ret = Idle
    /\ cell_log = << >>

\* cfg = predictor.configure_optimizers(); the mapping the caller gave is
\* the one the Predictor holds, so it changes with it.
ConfigureOptimizers ==
    /\ pc \in {"constructed", "configured"}
    /\ \E r \in {configure_optimizers(net)} :
          /\ ret' = r.cfg
          /\ net' = r.self
          /\ args' = IF args.scheduler_kwargs = None THEN args
                     ELSE [args EXCEPT !.scheduler_kwargs = r.self.scheduler_kwargs]
    /\ pc' = "configured"
    /\ UNCHANGED <<orig, cell_log>>

NextPredictor == ConfigureOptimizers

SpecPredictor == InitPredictor /\ [][NextPredictor]_vars

\* C13 (as claimed): after any number of calls of configure_optimizers the
\* Predictor's scheduler_kwargs is the mapping given at construction, and
\* with a scheduler class and a 'monitor' entry every call returns a cfg
\* holding 'optimizer', 'lr_scheduler' and that 'monitor' value.
ConfigureKeepsConfiguration ==
    pc = "configured" =>
        LET given == IF orig.scheduler_kwargs = None THEN Dict({}) ELSE orig.scheduler_kwargs
        IN  /\ net.scheduler_kwargs = given
            /\ (orig.scheduler_class # None /\ "monitor" \in Keys(given)) =>
                   /\ ret.keys = {"optimizer", "lr_scheduler", "monitor"}
                   /\ ret.monitor = DictPop(given, "monitor", None).value

====
